---- MODULE Spec2Model ----
(***************************************************************************)
(* Model of the caudal repository: four Python scripts that acquire the    *)
(* daily streamflow series of the Rinihue station, identify the date and   *)
(* value columns, clean the value column, write the cleaned table and      *)
(* render a chart.                                                         *)
(*                                                                         *)
(*   SpecClean  applies clean_data to bounded frames                       *)
(*   SpecIdent  applies the column identification to bounded frames        *)
(*   Spec       runs each script's main, with the network, the file        *)
(*              system and the plotting library as the environment         *)
(*   SpecPlot   applies create_plot to bounded frames                      *)
(*   SpecLoad   applies the text-file loaders to bounded files             *)
(*                                                                         *)
(* Numbers of the value column are integers in hundredths of a m3/s        *)
(* (12.5 is 1250), so that the values of linear interpolation the claims   *)
(* name are exact.                                                         *)
(***************************************************************************)
EXTENDS Integers, Sequences, FiniteSets, TLC

VARIABLES
    script,          \* the script whose code is running
    pc,              \* the position inside that script
    df,              \* the frame handed to the operation (a pandas DataFrame)
    df_clean,        \* the frame clean_data returned
    date_col,        \* the date column identified (an optional column name)
    streamflow_col,  \* the value column identified (an optional column name)
    via,             \* the pass that chose streamflow_col: "name", "numeric", "none"
    source,          \* the table the station's series file holds (the world's data)
    requests,        \* the URLs of the HTTP GETs issued so far, in order
    first,           \* the response to the initial API request
    second,          \* the response to the follow-up request to the export URL
    export_url,      \* the export URL taken from the envelope, if any
    payload,         \* what the fetcher returned
    csv_written,     \* the cleaned-table CSV was written by this run
    plot_written,    \* the chart image was written by this run
    status,          \* how main ended: "running", "returned_0", "returned_1",
                     \* "uncaught_exception"
    dates,           \* create_plot: one timestamp per row of the frame it was given
    df_plot,         \* create_plot: the frame whose value column is drawn
    dates_plot,      \* create_plot: the timestamps the values are drawn against
    cleaned_csv_exists,  \* os.path.exists(CLEANED_CSV) of create_plot_1960_2025
    data_file_exists,    \* os.path.exists(DATA_FILE) of create_plot_1960_2025
    download_started,    \* download_with_curl.sh was started by this run
    text_file,       \* the delimited-text file a loader is reading
    attempts,        \* the pd.read_csv calls the loader has made, in order
    load_result,     \* "none", "frame" or "unparseable"
    data_files,      \* what each path of DATA_FILES of plot_1960_2025 holds
    data_file,       \* the position in DATA_FILES that find_data_file returned, or 0
    methods_tried,   \* the acquisition methods extract's main has entered, in order
    r_script_exists, \* the temporary R script of download_data_with_r is on disk
    r_outcome        \* how the Rscript run of download_data_with_r ended

framevars == <<df, df_clean, date_col, streamflow_col, via>>
fetchvars == <<requests, first, second, export_url, payload>>
outvars == <<csv_written, plot_written, status>>
plotvars == <<dates, df_plot, dates_plot>>
filevars == <<cleaned_csv_exists, data_file_exists, download_started>>
loadvars == <<text_file, attempts, load_result>>
candvars == <<data_files, data_file>>
rvars == <<methods_tried, r_script_exists, r_outcome>>
vars == <<script, pc, source, framevars, fetchvars, outvars, plotvars, filevars, loadvars,
          candvars, rvars>>

(***************************************************************************)
(* Bounds of the model.                                                    *)
(***************************************************************************)
MaxRows == 4
MaxCols == 3

(***************************************************************************)
(* The scripts.                                                            *)
(***************************************************************************)
EXTRACT == "extract_rinihue_streamflow"
DOWNLOAD_AND_PLOT == "download_and_plot"
PLOT_1960_2025 == "plot_1960_2025"
CREATE_PLOT_1960_2025 == "create_plot_1960_2025"

Scripts == {EXTRACT, DOWNLOAD_AND_PLOT, PLOT_1960_2025, CREATE_PLOT_1960_2025}

(***************************************************************************)
(* Column names are sequences of characters, so that lower-casing and the  *)
(* substring tests of the code are computed and not assumed.               *)
(***************************************************************************)
UpperChars == <<"A","B","C","D","E","F","G","H","I","J","K","L","M",
                "N","O","P","Q","R","S","T","U","V","W","X","Y","Z">>
LowerChars == <<"a","b","c","d","e","f","g","h","i","j","k","l","m",
                "n","o","p","q","r","s","t","u","v","w","x","y","z">>

\* one character of str.lower()
LowerChar(c) ==
    IF \E i \in 1..Len(UpperChars) : UpperChars[i] = c
    THEN LowerChars[CHOOSE i \in 1..Len(UpperChars) : UpperChars[i] = c]
    ELSE c

\* str(col).lower()
Lower(name) == [i \in 1..Len(name) |-> LowerChar(name[i])]

\* term in col_lower
Contains(name, term) ==
    \E i \in 1..(Len(name) - Len(term) + 1) :
        SubSeq(name, i, i + Len(term) - 1) = term

\* any(term in col_lower for term in terms)
ContainsAny(name, terms) == \E t \in terms : Contains(name, t)

(***************************************************************************)
(* Optional values (None or a column name).                                *)
(***************************************************************************)
None == [some |-> FALSE, name |-> <<>>]
Some(n) == [some |-> TRUE, name |-> n]

(***************************************************************************)
(* Cells, rows and frames.  A cell is a number or missing (NaN); a row     *)
(* keeps its index label and one cell per column; a frame is its columns   *)
(* (name and dtype) and its rows in order.                                 *)
(***************************************************************************)
NaN == [na |-> TRUE, v |-> 0]
Num(x) == [na |-> FALSE, v |-> x]

Column(n, isnum) == [name |-> n, numeric |-> isnum]
Frame(c, r) == [columns |-> c, rows |-> r]
EmptyFrame == Frame(<<>>, <<>>)

\* df.columns.tolist()
ColumnNames(f) == [k \in 1..Len(f.columns) |-> f.columns[k].name]

\* the position of the column labelled name
ColIndex(f, name) == CHOOSE k \in 1..Len(f.columns) : f.columns[k].name = name

\* df[col]: the cells of one column, in row order
Series(f, k) == [i \in 1..Len(f.rows) |-> f.rows[i].cells[k]]

\* df[col] = s: the column replaced, rows and the other columns as they were
SetSeries(f, k, s) ==
    Frame(f.columns,
          [i \in 1..Len(f.rows) |->
              [f.rows[i] EXCEPT !.cells = [@ EXCEPT ![k] = s[i]]]])

\* s.isna().sum()
CountNA(s) == Cardinality({i \in 1..Len(s) : s[i].na})

(***************************************************************************)
(* The terms the scripts look for in column names.                         *)
(***************************************************************************)
t_date == <<"d","a","t","e">>
t_time == <<"t","i","m","e">>
t_fecha == <<"f","e","c","h","a">>
t_dia == <<"d","i","a">>
t_q == <<"q">>
t_streamflow == <<"s","t","r","e","a","m","f","l","o","w">>
t_flow == <<"f","l","o","w">>
t_caudal == <<"c","a","u","d","a","l">>
t_m3s == <<"m","3","s">>
t_m3_s == <<"m","³","/","s">>
t_discharge == <<"d","i","s","c","h","a","r","g","e">>
t_valor == <<"v","a","l","o","r">>
t_longitud == <<"l","o","n","g","i","t","u","d">>
t_latitud == <<"l","a","t","i","t","u","d">>
t_lon == <<"l","o","n">>
t_lat == <<"l","a","t">>
t_x == <<"x">>
t_y == <<"y">>

\* the terms of the date-column loop of each script
DateTerms(s) ==
    IF s \in {DOWNLOAD_AND_PLOT, PLOT_1960_2025}
    THEN {t_date, t_time, t_fecha, t_dia}
    ELSE {t_date, t_time, t_fecha}

\* the terms of the value-column loop of each script
ValueTerms(s) ==
    CASE s = DOWNLOAD_AND_PLOT ->
            {t_q, t_streamflow, t_flow, t_caudal, t_m3s, t_m3_s, t_discharge}
      [] s = PLOT_1960_2025 ->
            {t_q, t_streamflow, t_flow, t_caudal, t_m3s, t_m3_s, t_discharge, t_valor}
      [] s = CREATE_PLOT_1960_2025 ->
            {t_q, t_streamflow, t_flow, t_caudal, t_m3s, t_m3_s}
      [] OTHER ->
            {t_q, t_streamflow, t_flow, t_discharge, t_m3s}

\* exclude = ['longitud', 'latitud', 'lon', 'lat', 'x', 'y']
exclude == {t_longitud, t_latitud, t_lon, t_lat, t_x, t_y}

(***************************************************************************)
(* Column identification.                                                  *)
(***************************************************************************)
\* the first element of a non-empty set of positions (the loop's break)
First(S) == CHOOSE k \in S : \A j \in S : k <= j

\* list.remove(x): the first occurrence taken out
RemoveFirst(seq, x) ==
    IF \E i \in 1..Len(seq) : seq[i] = x
    THEN LET i == First({j \in 1..Len(seq) : seq[j] = x})
         IN SubSeq(seq, 1, i - 1) \o SubSeq(seq, i + 1, Len(seq))
    ELSE seq

\* the date-column loop: the first column whose lower-cased name holds a term
FindDateColumn(s, f) ==
    LET hits == {k \in 1..Len(f.columns) :
                    ContainsAny(Lower(f.columns[k].name), DateTerms(s))}
    IN IF hits = {} THEN None ELSE Some(f.columns[First(hits)].name)

\* NameExcluded with the coordinate test left out
NameExcluded_Missing(s, col_lower) == FALSE

\* "Make sure it's not a coordinate": only plot_1960_2025 has the test, and
\* only for the substrings longitud and latitud
NameExcluded(s, col_lower) ==
    /\ s = PLOT_1960_2025
    /\ (Contains(col_lower, t_longitud) \/ Contains(col_lower, t_latitud))

\* the value-column loop: the first column whose lower-cased name holds a
\* value term and passes the coordinate test
FindValueByName(s, f) ==
    LET hits == {k \in 1..Len(f.columns) :
                    /\ ContainsAny(Lower(f.columns[k].name), ValueTerms(s))
                    /\ ~NameExcluded(s, Lower(f.columns[k].name))}
    IN IF hits = {} THEN None ELSE Some(f.columns[First(hits)].name)

\* df.select_dtypes(include=['number']).columns.tolist()
NumericCols(f) ==
    LET IsNum(c) == c.numeric
    IN [i \in 1..Len(SelectSeq(f.columns, IsNum)) |->
            SelectSeq(f.columns, IsNum)[i].name]

\* the columns the numeric fallback may take, in column order
FallbackCandidates(s, f, dcol) ==
    LET numeric_cols == NumericCols(f)
        without_date ==
            IF dcol.some /\ (\E i \in 1..Len(numeric_cols) : numeric_cols[i] = dcol.name)
            THEN RemoveFirst(numeric_cols, dcol.name)
            ELSE numeric_cols
        NotCoordinate(c) == Lower(c) \notin exclude
        NotDateNamed(c) == ~ContainsAny(Lower(c), {t_date, t_time})
    IN CASE s = PLOT_1960_2025 -> SelectSeq(without_date, NotCoordinate)
         [] s = EXTRACT -> SelectSeq(numeric_cols, NotDateNamed)
         [] OTHER -> without_date

\* identify_columns falling back to the first column of the frame when the
\* numeric fallback finds nothing
identify_columns_FirstColumnFallback(s, f) ==
    LET dcol == FindDateColumn(s, f)
        byname == FindValueByName(s, f)
        cand == FallbackCandidates(s, f, dcol)
    IN IF byname.some
       THEN [date_col |-> dcol, streamflow_col |-> byname, via |-> "name"]
       ELSE IF Len(cand) > 0
       THEN [date_col |-> dcol, streamflow_col |-> Some(cand[1]), via |-> "numeric"]
       ELSE [date_col |-> dcol, streamflow_col |-> Some(f.columns[1].name),
             via |-> "numeric"]

\* identify_columns (in extract: the loops of clean_data and create_plot)
identify_columns(s, f) ==
    LET dcol == FindDateColumn(s, f)
        byname == FindValueByName(s, f)
        cand == FallbackCandidates(s, f, dcol)
    IN IF byname.some
       THEN [date_col |-> dcol, streamflow_col |-> byname, via |-> "name"]
       ELSE IF Len(cand) > 0
       THEN [date_col |-> dcol, streamflow_col |-> Some(cand[1]), via |-> "numeric"]
       ELSE [date_col |-> dcol, streamflow_col |-> None, via |-> "none"]


(***************************************************************************)
(* Cleaning: the pandas operations clean_data calls, and clean_data.       *)
(***************************************************************************)
Max(S) == CHOOSE k \in S : \A j \in S : k >= j

\* the positions of the valid (not missing) entries of a series
Valid(s) == {j \in 1..Len(s) : ~s[j].na}

\* Series.ffill(): every missing entry takes the last valid value before it
ffill(s) ==
    [i \in 1..Len(s) |->
        LET before == {j \in Valid(s) : j <= i}
        IN IF before = {} THEN NaN ELSE s[Max(before)]]

\* bfill with limit=1: a missing entry is filled only from the entry right
\* after it
bfill_LimitOne(s) ==
    [i \in 1..Len(s) |->
        IF s[i].na /\ i < Len(s) /\ ~s[i + 1].na THEN s[i + 1] ELSE s[i]]

\* Series.bfill(): every missing entry takes the next valid value after it
bfill(s) ==
    [i \in 1..Len(s) |->
        LET after == {j \in Valid(s) : j >= i}
        IN IF after = {} THEN NaN ELSE s[First(after)]]

\* Series.interpolate(method='linear'): a gap between two valid entries is
\* filled on the straight line between them by row position, a trailing gap
\* takes the last valid value, a leading gap stays missing
interpolate(s) ==
    [i \in 1..Len(s) |->
        LET before == {j \in Valid(s) : j <= i}
            after == {j \in Valid(s) : j >= i}
        IN IF before = {} THEN NaN
           ELSE IF after = {} THEN s[Max(before)]
           ELSE LET p == Max(before)
                    n == First(after)
                IN IF p = n THEN s[i]
                   ELSE Num(s[p].v + ((s[n].v - s[p].v) * (i - p)) \div (n - p))]

\* dropna without subset and with how='all': only rows missing in every column go
dropna_AllColumns(f, k) ==
    LET Kept(r) == \E c \in 1..Len(r.cells) : ~r.cells[c].na
    IN Frame(f.columns, SelectSeq(f.rows, Kept))

\* df.dropna(subset=[col]): the rows whose entry is valid, in their order
dropna(f, k) ==
    LET Kept(r) == ~r.cells[k].na
    IN Frame(f.columns, SelectSeq(f.rows, Kept))

\* FillMissing with the interpolation run before the fills
FillMissing_InterpolateFirst(s) == bfill(ffill(interpolate(s)))

\* FillMissing with the filled series never assigned back to the column
FillMissing_NotAssigned(s) == s

\* s.ffill().bfill(), then interpolate(method='linear') if an entry is
\* still missing
FillMissing(s) ==
    LET filled == bfill(ffill(s))
    IN IF CountNA(filled) > 0 THEN interpolate(filled) ELSE filled

\* NeedsCleaning with the threshold off by one
NeedsCleaning_OffByOne(s, missing_count) == s = EXTRACT \/ missing_count > 1

\* "if missing_count > 0:" of download_and_plot and plot_1960_2025;
\* extract_rinihue_streamflow fills and drops unconditionally
NeedsCleaning(s, missing_count) == s = EXTRACT \/ missing_count > 0

\* clean_data(df, streamflow_col)
clean_data(s, f, col) ==
    LET k == ColIndex(f, col)
        missing_count == CountNA(Series(f, k))
    IN IF NeedsCleaning(s, missing_count)
       THEN dropna(SetSeries(f, k, FillMissing(Series(f, k))), k)
       ELSE f


(***************************************************************************)
(* Column names of the frames the specifications draw.                     *)
(***************************************************************************)
n_fecha == <<"f","e","c","h","a">>
n_time == <<"t","i","m","e">>
n_caudal_m3s == <<"c","a","u","d","a","l","_","m","3","s">>
n_longitud == <<"l","o","n","g","i","t","u","d">>
n_latitud == <<"l","a","t","i","t","u","d">>
n_valor == <<"v","a","l","o","r">>
n_lon == <<"l","o","n">>
n_LAT == <<"L","A","T">>
n_n == <<"n">>
n_caudal_x == <<"c","a","u","d","a","l","_","x">>
n_Q_latitud == <<"Q","_","l","a","t","i","t","u","d">>
n_quality == <<"q","u","a","l","i","t","y">>
n_dia_caudal == <<"d","i","a","_","c","a","u","d","a","l">>

(***************************************************************************)
(* HTTP responses, as the fetchers read them.                              *)
(***************************************************************************)
API_URL == "https://explorador.cr2.cl/request.php"
SERIES_URL == "export.series.url"
MAP_URL == "export.map.url"

\* outcome: "ok" (status 200), "http_error" (another status),
\*          "network_error" (requests.get raised), "none" (no request made)
\* ctype:   what the Content-Type header names
\* body:    "envelope" (a JSON object, with series and map telling which
\*          export URLs it holds), "json_other", "csv", "xlsx", "html"
Response(o, c, b, s, m) ==
    [outcome |-> o, ctype |-> c, body |-> b, series |-> s, map |-> m]

NoResponse == Response("none", "", "", FALSE, FALSE)

NoPayload == [kind |-> "none", of |-> "", url |-> ""]

\* a delimited-text file, as pd.read_csv meets it: whether its bytes decode
\* as UTF-8 (any bytes decode as Latin-1) and the separators under which
\* the parser does not raise
TextFile(u, seps) == [utf8 |-> u, parses_with |-> seps]

NoTextFile == TextFile(FALSE, {})

\* what a path of DATA_FILES holds: nothing, or bytes of a kind ("envelope":
\* a saved JSON answer of the API, "xlsx": a spreadsheet, "csv": a
\* comma-separated table), which decode as UTF-8 text or do not
Absent == [exists |-> FALSE, kind |-> "", utf8 |-> FALSE]
Holds(kind, utf8) == [exists |-> TRUE, kind |-> kind, utf8 |-> utf8]

NoDataFiles == <<Absent, Absent, Absent>>

\* the variables of a run of main, for the specifications that run none
NoRun ==
    /\ source = EmptyFrame
    /\ requests = <<>>
    /\ first = NoResponse
    /\ second = NoResponse
    /\ export_url = ""
    /\ payload = NoPayload
    /\ csv_written = FALSE
    /\ plot_written = FALSE
    /\ dates = <<>>
    /\ df_plot = EmptyFrame
    /\ dates_plot = <<>>
    /\ cleaned_csv_exists = FALSE
    /\ data_file_exists = FALSE
    /\ download_started = FALSE
    /\ data_files = NoDataFiles
    /\ data_file = 0
    /\ methods_tried = <<>>
    /\ r_script_exists = FALSE
    /\ r_outcome = "none"
    /\ text_file = NoTextFile
    /\ attempts = <<>>
    /\ load_result = "none"
    /\ status = "running"

(***************************************************************************)
(* SpecClean: clean_data applied to every frame of at most MaxRows rows    *)
(* with a text column fecha and a numeric column caudal_m3s, in either     *)
(* column order, whose value entries are missing, 12.5 or 14.0.            *)
(***************************************************************************)
CleanValues == {NaN, Num(1250), Num(1400)}

CleanColumns ==
    { <<Column(n_fecha, FALSE), Column(n_caudal_m3s, TRUE)>>,
      <<Column(n_caudal_m3s, TRUE), Column(n_fecha, FALSE)>> }

\* the frame with these columns whose value column holds vals and whose
\* fecha column holds consecutive days
CleanFrame(cols, vals) ==
    Frame(cols,
          [i \in 1..Len(vals) |->
              [idx |-> i,
               cells |-> IF cols[1].numeric
                         THEN <<vals[i], Num(i)>>
                         ELSE <<Num(i), vals[i]>>]])

CleanFrames ==
    { CleanFrame(cols, vals) :
        cols \in CleanColumns,
        vals \in UNION {[1..n -> CleanValues] : n \in 0..MaxRows} }

CleanScripts == {EXTRACT, DOWNLOAD_AND_PLOT, PLOT_1960_2025}

InitClean ==
    /\ script \in CleanScripts
    /\ pc = "clean_data"
    /\ df \in CleanFrames
    /\ df_clean = EmptyFrame
    /\ date_col = None
    /\ streamflow_col = Some(n_caudal_m3s)
    /\ via = "none"
    /\ NoRun

\* df_clean = clean_data(df, streamflow_col)
CleanData ==
    /\ pc = "clean_data"
    /\ df_clean' = clean_data(script, df, streamflow_col.name)
    /\ pc' = "cleaned"
    /\ UNCHANGED <<script, source, df, date_col, streamflow_col, via>>
    /\ UNCHANGED <<fetchvars, outvars>>
    /\ UNCHANGED plotvars
    /\ UNCHANGED filevars
    /\ UNCHANGED loadvars
    /\ UNCHANGED candvars
    /\ UNCHANGED rvars

NextClean == CleanData

SpecClean == InitClean /\ [][NextClean]_vars

(***************************************************************************)
(* SpecIdent: the column identification of each script applied to every    *)
(* frame of at most MaxCols distinct columns drawn from IdentColumns.      *)
(***************************************************************************)
IdentColumns ==
    { Column(n_fecha, FALSE), Column(n_time, TRUE), Column(n_caudal_m3s, TRUE),
      Column(n_longitud, TRUE), Column(n_latitud, TRUE), Column(n_valor, TRUE),
      Column(n_lon, TRUE), Column(n_LAT, TRUE), Column(n_n, TRUE),
      Column(n_caudal_x, TRUE), Column(n_Q_latitud, TRUE),
      Column(n_quality, FALSE), Column(n_dia_caudal, TRUE) }

IdentFrames ==
    { Frame(cols, <<>>) :
        cols \in UNION { {c \in [1..n -> IdentColumns] :
                            \A i, j \in 1..n : i # j => c[i] # c[j]} :
                         n \in 1..MaxCols } }

InitIdent ==
    /\ script \in Scripts
    /\ pc = "identify_columns"
    /\ df \in IdentFrames
    /\ df_clean = EmptyFrame
    /\ date_col = None
    /\ streamflow_col = None
    /\ via = "none"
    /\ NoRun

\* date_col, streamflow_col = identify_columns(df)
IdentifyColumns ==
    /\ pc = "identify_columns"
    /\ LET r == identify_columns(script, df)
       IN /\ date_col' = r.date_col
          /\ streamflow_col' = r.streamflow_col
          /\ via' = r.via
    /\ pc' = "identified"
    /\ UNCHANGED <<script, source, df, df_clean, fetchvars, outvars>>
    /\ UNCHANGED plotvars
    /\ UNCHANGED filevars
    /\ UNCHANGED loadvars
    /\ UNCHANGED candvars
    /\ UNCHANGED rvars

NextIdent == IdentifyColumns

SpecIdent == InitIdent /\ [][NextIdent]_vars


(***************************************************************************)
(* Properties of clean_data, checked under SpecClean.                      *)
(***************************************************************************)
\* the value column of a frame of SpecClean
ValueSeries(f) == Series(f, ColIndex(f, streamflow_col.name))

C1_Input == <<NaN, Num(1250), NaN, Num(1400)>>

\* C1, as claimed: cleaning the value column [missing, 12.5, missing, 14.0]
\* yields [12.5, 12.5, 13.25, 14.0] with all 4 rows kept.
C1_InterpolatedInteriorGap ==
    (pc = "cleaned" /\ ValueSeries(df) = C1_Input) =>
        /\ ValueSeries(df_clean) = <<Num(1250), Num(1250), Num(1325), Num(1400)>>
        /\ Len(df_clean.rows) = 4

\* C1, amended: cleaning the value column [missing, 12.5, missing, 14.0]
\* yields [12.5, 12.5, 12.5, 14.0] with all 4 rows kept: the interior gap is
\* forward-filled from the valid value before it, the leading gap is
\* backward-filled from the next valid value, and no interpolation happens.
C1_ForwardFilledInteriorGap ==
    (pc = "cleaned" /\ ValueSeries(df) = C1_Input) =>
        /\ ValueSeries(df_clean) = <<Num(1250), Num(1250), Num(1250), Num(1400)>>
        /\ Len(df_clean.rows) = 4

C1_Witness == pc = "cleaned" /\ ValueSeries(df) = C1_Input

\* the cells of a row outside the value column
OtherCells(f, r) ==
    [c \in (1..Len(r.cells)) \ {ColIndex(f, streamflow_col.name)} |-> r.cells[c]]

\* C2: the frame clean_data returns has no missing entry in the value
\* column, has the columns of the input, and its rows are input rows in
\* their original order (same or fewer rows, none reordered).
C2_CleanOutputShape ==
    pc = "cleaned" =>
        /\ CountNA(ValueSeries(df_clean)) = 0
        /\ df_clean.columns = df.columns
        /\ Len(df_clean.rows) <= Len(df.rows)
        /\ \A i \in 1..Len(df_clean.rows) :
              /\ df_clean.rows[i].idx \in 1..Len(df.rows)
              /\ OtherCells(df_clean, df_clean.rows[i])
                    = OtherCells(df, df.rows[df_clean.rows[i].idx])
        /\ \A i, j \in 1..Len(df_clean.rows) :
              i < j => df_clean.rows[i].idx < df_clean.rows[j].idx

C2_Witness ==
    /\ pc = "cleaned"
    /\ Len(df.rows) >= 3
    /\ CountNA(ValueSeries(df)) = 1
    /\ Len(df_clean.rows) = Len(df.rows)

\* missing entries only at interior positions: first and last entry valid
OnlyInteriorGaps(s) == Len(s) >= 1 /\ ~s[1].na /\ ~s[Len(s)].na

\* C3: for a value column whose missing entries are all interior,
\* clean_data returns no missing value and the same number of rows.
C3_InteriorGapsKeepRows ==
    (pc = "cleaned" /\ OnlyInteriorGaps(ValueSeries(df))) =>
        /\ CountNA(ValueSeries(df_clean)) = 0
        /\ Len(df_clean.rows) = Len(df.rows)

C3_Witness ==
    /\ pc = "cleaned"
    /\ OnlyInteriorGaps(ValueSeries(df))
    /\ CountNA(ValueSeries(df)) >= 2

\* C4: for a value column missing in every row, clean_data returns a
\* frame with zero rows.
C4_AllMissingDropsAll ==
    (pc = "cleaned" /\ CountNA(ValueSeries(df)) = Len(df.rows)) =>
        Len(df_clean.rows) = 0

C4_Witness ==
    /\ pc = "cleaned"
    /\ Len(df.rows) >= 2
    /\ CountNA(ValueSeries(df)) = Len(df.rows)

(***************************************************************************)
(* Properties of the column identification, checked under SpecIdent.       *)
(***************************************************************************)
\* C5: for a frame with the numeric columns longitud, latitud, valor, the
\* column identification of every script selects valor as the value column.
C5_ValorSelected ==
    (pc = "identified"
        /\ ColumnNames(df) = <<n_longitud, n_latitud, n_valor>>) =>
        streamflow_col = Some(n_valor)

\* the scripts that define identify_columns
IdentifyScripts == {DOWNLOAD_AND_PLOT, PLOT_1960_2025, CREATE_PLOT_1960_2025}

\* C6, as claimed: the name-matching pass of identify_columns never
\* chooses a column whose lower-cased name contains any of longitud,
\* latitud, lon, lat, x, y.
C6_NamePassExcludesCoordinateTerms ==
    (pc = "identified" /\ script \in IdentifyScripts /\ via = "name") =>
        ~ContainsAny(Lower(streamflow_col.name), exclude)

\* C6, amended: the name-matching pass of plot_1960_2025's
\* identify_columns never chooses a column whose lower-cased name contains
\* longitud or latitud, even when the name also contains a value term.
C6_NamePassExcludesLongitudLatitud ==
    (pc = "identified" /\ script = PLOT_1960_2025 /\ via = "name") =>
        ~ContainsAny(Lower(streamflow_col.name), {t_longitud, t_latitud})

\* a column holding a value term and latitud stands before the chosen one
C6_Witness ==
    /\ pc = "identified"
    /\ script = PLOT_1960_2025
    /\ via = "name"
    /\ \E k \in 1..Len(df.columns) :
          /\ k < ColIndex(df, streamflow_col.name)
          /\ ContainsAny(Lower(df.columns[k].name), ValueTerms(script))
          /\ Contains(Lower(df.columns[k].name), t_latitud)

\* the numeric columns that are neither the date column nor named as a
\* coordinate, in column order
EligibleNumeric(f, dcol) ==
    LET Eligible(c) == (dcol.some => c # dcol.name) /\ Lower(c) \notin exclude
    IN SelectSeq(NumericCols(f), Eligible)

\* C7: when no column name matches a value term, the numeric fallback of
\* identify_columns selects a column named lon, lat, latitud, longitud, x
\* or y only if it is the only numeric column, and otherwise selects the
\* first numeric column that is neither the date column nor so named.
C7_FallbackSkipsCoordinates ==
    (pc = "identified"
        /\ script \in IdentifyScripts
        /\ \A k \in 1..Len(df.columns) :
              ~ContainsAny(Lower(df.columns[k].name), ValueTerms(script))) =>
        /\ (streamflow_col.some /\ Lower(streamflow_col.name) \in exclude)
              => Len(NumericCols(df)) = 1
        /\ Len(EligibleNumeric(df, date_col)) > 0
              => streamflow_col = Some(EligibleNumeric(df, date_col)[1])


(***************************************************************************)
(* Timestamps and the date handling of create_plot.  The text of a date    *)
(* entry "yyyy-mm-dd" is the integer yyyymmdd of its digits; text that is  *)
(* no date is an integer that names no calendar day.  A timestamp is NaT   *)
(* or a day counted from 1960-01-01.                                       *)
(***************************************************************************)
DateText(y, m, d) == Num(y * 10000 + m * 100 + d)

IsLeap(y) == (y % 4 = 0 /\ y % 100 # 0) \/ y % 400 = 0

DaysInMonth(y, m) ==
    IF m = 2 THEN (IF IsLeap(y) THEN 29 ELSE 28)
    ELSE IF m \in {4, 6, 9, 11} THEN 30
    ELSE 31

\* the leap years before year y
LeapsBefore(y) == (y - 1) \div 4 - (y - 1) \div 100 + (y - 1) \div 400

RECURSIVE DaysBeforeMonth(_, _)
DaysBeforeMonth(y, m) ==
    IF m = 1 THEN 0 ELSE DaysBeforeMonth(y, m - 1) + DaysInMonth(y, m - 1)

NaT == [nat |-> TRUE, day |-> 0]

\* pd.Timestamp('yyyy-mm-dd')
Timestamp(y, m, d) ==
    [nat |-> FALSE,
     day |-> 365 * (y - 1960) + LeapsBefore(y) - LeapsBefore(1960)
             + DaysBeforeMonth(y, m) + d - 1]

\* whether the text of an entry is a calendar day
IsDate(v) ==
    /\ v > 0
    /\ (v \div 100) % 100 \in 1..12
    /\ v % 100 \in 1..DaysInMonth(v \div 10000, (v \div 100) % 100)

\* pd.to_datetime(s, errors='coerce'): what does not parse becomes NaT
to_datetime(s) ==
    [i \in 1..Len(s) |->
        IF s[i].na \/ ~IsDate(s[i].v) THEN NaT
        ELSE Timestamp(s[i].v \div 10000, (s[i].v \div 100) % 100, s[i].v % 100)]

\* pd.date_range(start=start, periods=periods, freq='D')
date_range(start, periods) ==
    [i \in 1..periods |-> [nat |-> FALSE, day |-> start.day + i - 1]]

\* dates.isna().all()
isna_all(ds) == \A i \in 1..Len(ds) : ds[i].nat

\* the row count above which extract's create_plot starts its generated
\* dates in 1960
many_rows == 20000

\* start_date of the generated dates
start_date(s, f) ==
    IF s = EXTRACT /\ ~(Len(f.rows) > many_rows)
    THEN Timestamp(1970, 1, 1)
    ELSE Timestamp(1960, 1, 1)

\* "if date_col and date_col in df.columns"; extract's create_plot has
\* just searched the columns itself
HasDateColumn(s, f, dc) ==
    /\ dc.some
    /\ s # EXTRACT => \E k \in 1..Len(f.columns) : f.columns[k].name = dc.name

\* dates, as create_plot has them before filtering
plot_dates(s, f, dc) ==
    IF HasDateColumn(s, f, dc)
    THEN LET parsed == to_datetime(Series(f, ColIndex(f, dc.name)))
         IN IF s = EXTRACT /\ isna_all(parsed)
            THEN date_range(Timestamp(1960, 1, 1), Len(f.rows))
            ELSE parsed
    ELSE date_range(start_date(s, f), Len(f.rows))

\* a mask that lets undefined timestamps through
InWindow_AdmitsNaT(ts) ==
    \/ ts.nat
    \/ /\ ts.day >= Timestamp(1960, 1, 1).day
       /\ ts.day <= Timestamp(2025, 12, 31).day

\* (dates >= pd.Timestamp('1960-01-01')) & (dates <= pd.Timestamp('2025-12-31'))
InWindow(ts) ==
    /\ ~ts.nat
    /\ ts.day >= Timestamp(1960, 1, 1).day
    /\ ts.day <= Timestamp(2025, 12, 31).day

\* whether create_plot filters to the 1960-2025 range
FiltersDates(s, f, dc, ds) ==
    IF s = EXTRACT THEN dc.some /\ ~isna_all(ds) ELSE ~isna_all(ds)

\* the date handling of create_plot(df, date_col, streamflow_col): its
\* dates, df_plot and dates_plot
create_plot_dates(s, f, dc) ==
    LET ds == plot_dates(s, f, dc)
        pairs == [i \in 1..Len(f.rows) |-> [row |-> f.rows[i], ts |-> ds[i]]]
        Masked(p) == InWindow(p.ts)
        kept == SelectSeq(pairs, Masked)
        all == [dates |-> ds, df_plot |-> f, dates_plot |-> ds]
    IN IF FiltersDates(s, f, dc, ds) /\ Len(kept) > 0
       THEN [dates |-> ds,
             df_plot |-> Frame(f.columns, [i \in 1..Len(kept) |-> kept[i].row]),
             dates_plot |-> [i \in 1..Len(kept) |-> kept[i].ts]]
       ELSE all


(***************************************************************************)
(* Spec: one run of a script's main.  The environment chooses the HTTP     *)
(* responses, the files present and whether file and plot writes succeed.  *)
(***************************************************************************)
n_html == <<"<","h","t","m","l",">">>

\* a frame with these columns and one row per entry of vals, vals in the
\* column at value_at and the i-th day of January 1960 in row i of the others
SourceFrame(cols, value_at, vals) ==
    Frame(cols,
          [i \in 1..Len(vals) |->
              [idx |-> i,
               cells |-> [c \in 1..Len(cols) |->
                             IF c = value_at THEN vals[i]
                             ELSE DateText(1960, 1, i)]]])

\* the tables the series file of the station may hold
SeriesFrames ==
    { SourceFrame(<<Column(n_fecha, FALSE), Column(n_caudal_m3s, TRUE)>>, 2,
                  <<NaN, Num(1250), NaN, Num(1400)>>),
      SourceFrame(<<Column(n_fecha, FALSE), Column(n_caudal_m3s, TRUE)>>, 2,
                  <<NaN, NaN>>),
      SourceFrame(<<Column(n_fecha, FALSE), Column(n_quality, FALSE)>>, 2,
                  <<Num(1), Num(2)>>),
      SourceFrame(<<Column(n_fecha, FALSE), Column(n_lon, TRUE), Column(n_LAT, TRUE)>>, 2,
                  <<Num(1), Num(2)>>),
      SourceFrame(<<Column(n_fecha, FALSE)>>, 1, <<Num(1), Num(2)>>) }

\* the table the map export holds: one row per site
MapFrame ==
    SourceFrame(<<Column(n_longitud, TRUE), Column(n_latitud, TRUE),
                  Column(n_valor, TRUE)>>, 3, <<Num(1250), Num(1400)>>)

\* what pandas makes of bytes that are no table: one text column
JunkFrame == SourceFrame(<<Column(n_html, FALSE)>>, 1, <<Num(1)>>)

\* the table behind a URL
BodyFrame(url) == IF url = MAP_URL THEN MapFrame ELSE source

FirstResponses ==
    { Response("network_error", "", "", FALSE, FALSE),
      Response("http_error", "", "", FALSE, FALSE) }
    \cup { Response("ok", c, b, FALSE, FALSE) :
             c \in {"json", "excel", "html", "other"},
             b \in {"json_other", "csv", "xlsx", "html"} }
    \cup { Response("ok", c, "envelope", se, m) :
             c \in {"json", "excel", "html", "other"},
             se \in BOOLEAN, m \in BOOLEAN }

SecondResponses ==
    { Response("network_error", "", "", FALSE, FALSE),
      Response("http_error", "", "", FALSE, FALSE) }
    \cup { Response("ok", c, b, FALSE, FALSE) :
             c \in {"csv", "xlsx", "other"}, b \in {"csv", "xlsx"} }

\* the extensions the export URL of an envelope may end with
UrlExtensions == {".csv", ".xlsx", ""}

\* main returns or dies: nothing more runs
Finish(how) ==
    /\ status' = how
    /\ pc' = "done"

\* whether extract_rinihue_streamflow, whose OUTPUT_CSV is the CLEANED_CSV of
\* create_plot_1960_2025, writes its cleaned table for this source
CleanedCsvWritable(src) == identify_columns(EXTRACT, src).streamflow_col.some

\* pd.read_csv(CLEANED_CSV): the table extract_rinihue_streamflow cleaned and
\* wrote with index=False, so the rows are numbered anew
CleanedCsvFrame(src) ==
    LET cleaned == clean_data(EXTRACT, src,
                              identify_columns(EXTRACT, src).streamflow_col.name)
    IN Frame(cleaned.columns,
             [i \in 1..Len(cleaned.rows) |->
                 [idx |-> i, cells |-> cleaned.rows[i].cells]])

\* the extensions of the paths of DATA_FILES, in its order
DATA_FILES == <<".xlsx", ".csv", ".csv">>

\* what data/rinihue_streamflow.xlsx may hold: a saved envelope, or a
\* spreadsheet, whose zipped bytes as a rule do not decode as UTF-8
XlsxPathContents ==
    {Absent, Holds("envelope", TRUE), Holds("xlsx", FALSE), Holds("xlsx", TRUE)}

\* what a .csv path may hold: a table in UTF-8 or in another encoding
CsvPathContents == {Absent, Holds("csv", TRUE), Holds("csv", FALSE)}

\* the files plot_1960_2025 may find; the other scripts do not read them
DataFilesOf(s, src) ==
    IF s = PLOT_1960_2025
    THEN { <<a, b, c>> :
             a \in XlsxPathContents,
             b \in (IF CleanedCsvWritable(src) THEN CsvPathContents ELSE {Absent}),
             c \in CsvPathContents }
    ELSE {NoDataFiles}

StartOf(s) ==
    CASE s = EXTRACT -> "method1"
      [] s = DOWNLOAD_AND_PLOT -> "download"
      [] s = CREATE_PLOT_1960_2025 -> "download"
      [] OTHER -> "load"

Init ==
    /\ script \in Scripts
    /\ pc = StartOf(script)
    /\ source \in SeriesFrames
    /\ df = EmptyFrame
    /\ df_clean = EmptyFrame
    /\ date_col = None
    /\ streamflow_col = None
    /\ via = "none"
    /\ requests = <<>>
    /\ first = NoResponse
    /\ second = NoResponse
    /\ export_url = ""
    /\ payload = NoPayload
    /\ csv_written = FALSE
    /\ plot_written = FALSE
    /\ dates = <<>>
    /\ df_plot = EmptyFrame
    /\ dates_plot = <<>>
    /\ cleaned_csv_exists \in
          IF script = CREATE_PLOT_1960_2025 /\ CleanedCsvWritable(source)
          THEN BOOLEAN ELSE {FALSE}
    /\ data_file_exists \in
          IF script = CREATE_PLOT_1960_2025 THEN BOOLEAN ELSE {FALSE}
    /\ download_started = FALSE
    /\ data_files \in DataFilesOf(script, source)
    /\ data_file = 0
    /\ methods_tried = <<>>
    /\ r_script_exists = FALSE
    /\ r_outcome = "none"
    /\ text_file = NoTextFile
    /\ attempts = <<>>
    /\ load_result = "none"
    /\ status = "running"

(***************************************************************************)
(* download_and_plot: download_data and load_and_process_data.             *)
(***************************************************************************)
\* series_url = export_data.get('series', {}).get('url')
DAP_ExportUrl(r) == IF r.series THEN SERIES_URL ELSE ""

\* download_data up to its return or to the request for the export file,
\* and main's "if not data_file: return 1"
DAP_Download ==
    /\ script = DOWNLOAD_AND_PLOT
    /\ pc = "download"
    /\ \E r \in FirstResponses :
          /\ first' = r
          /\ requests' = Append(requests, API_URL)
          /\ IF r.outcome # "ok"
             THEN \* "API request failed" or the exception handler: return None
                  /\ Finish("returned_1")
                  /\ UNCHANGED <<export_url, payload>>
             ELSE IF r.body \in {"envelope", "json_other"}
             THEN \* response.json() parsed
                  IF r.body = "envelope" /\ DAP_ExportUrl(r) # ""
                  THEN /\ export_url' = DAP_ExportUrl(r)
                       /\ pc' = "follow_up"
                       /\ UNCHANGED <<payload, status>>
                  ELSE \* "No series URL found in response": return None
                       /\ Finish("returned_1")
                       /\ UNCHANGED <<export_url, payload>>
             ELSE \* json.JSONDecodeError: the body is saved as the CSV
                  /\ payload' = [kind |-> "path", of |-> "first", url |-> API_URL]
                  /\ pc' = "load"
                  /\ UNCHANGED <<export_url, status>>
    /\ UNCHANGED <<script, source, framevars, second, csv_written, plot_written>>
    /\ UNCHANGED plotvars
    /\ UNCHANGED filevars
    /\ UNCHANGED loadvars
    /\ UNCHANGED candvars
    /\ UNCHANGED rvars

\* file_response = requests.get(series_url, ...) to the end of download_data
DAP_FollowUp ==
    /\ script = DOWNLOAD_AND_PLOT
    /\ pc = "follow_up"
    /\ \E r \in SecondResponses :
          /\ second' = r
          /\ requests' = Append(requests, export_url)
          /\ IF r.outcome = "ok"
             THEN /\ payload' = [kind |-> "path", of |-> "second", url |-> export_url]
                  /\ pc' = "load"
                  /\ UNCHANGED status
             ELSE /\ Finish("returned_1")
                  /\ UNCHANGED payload
    /\ UNCHANGED <<script, source, framevars, first, export_url,
                   csv_written, plot_written>>
    /\ UNCHANGED plotvars
    /\ UNCHANGED filevars
    /\ UNCHANGED loadvars
    /\ UNCHANGED candvars
    /\ UNCHANGED rvars

\* the body the payload holds
PayloadBody == IF payload.of = "first" THEN first.body ELSE second.body

\* load_and_process_data(data_file) and main's "if df is None: return 1":
\* CSV text parses to its table; other bytes parse to a junk table or to
\* nothing, as read_csv under latin-1 decides
DAP_Load ==
    /\ script = DOWNLOAD_AND_PLOT
    /\ pc = "load"
    /\ \/ /\ PayloadBody = "csv"
          /\ df' = BodyFrame(payload.url)
          /\ pc' = "identify"
          /\ UNCHANGED status
       \/ /\ PayloadBody # "csv"
          /\ df' = JunkFrame
          /\ pc' = "identify"
          /\ UNCHANGED status
       \/ /\ PayloadBody # "csv"
          /\ Finish("returned_1")
          /\ UNCHANGED df
    /\ UNCHANGED <<script, source, df_clean, date_col, streamflow_col, via,
                   fetchvars, csv_written, plot_written>>
    /\ UNCHANGED plotvars
    /\ UNCHANGED filevars
    /\ UNCHANGED loadvars
    /\ UNCHANGED candvars
    /\ UNCHANGED rvars


(***************************************************************************)
(* extract_rinihue_streamflow: the acquisition methods of main.            *)
(***************************************************************************)
\* how the Rscript run of download_data_with_r may end: it returns True,
\* or raises for a non-zero exit, a missing output file, a timeout, or an
\* Rscript that is not found
ROutcomes == {"ok", "nonzero_exit", "no_output_file", "timeout", "rscript_not_found"}

\* a clean-up that runs only when the R script succeeded
r_script_after_OnlyOnSuccess(outcome, exists) ==
    IF outcome = "ok" THEN FALSE ELSE exists

\* the finally clause of download_data_with_r: the script is removed if it
\* exists, however the try block was left
r_script_after(outcome, exists) == FALSE

\* Method 1 up to the start of Rscript: check_r_available() and, inside
\* download_data_with_r, create_r_script(); without Rscript, or when the
\* script cannot be written, Method 2 is next
X_Method1 ==
    /\ script = EXTRACT
    /\ pc = "method1"
    /\ \E r_available \in BOOLEAN, written \in BOOLEAN :
          IF r_available
          THEN /\ methods_tried' = Append(methods_tried, 1)
               /\ r_script_exists' = written
               /\ pc' = IF written THEN "rscript" ELSE "method2"
          ELSE /\ pc' = "method2"
               /\ UNCHANGED <<methods_tried, r_script_exists>>
    /\ UNCHANGED <<script, source, framevars, fetchvars, outvars, r_outcome>>
    /\ UNCHANGED plotvars
    /\ UNCHANGED filevars
    /\ UNCHANGED loadvars
    /\ UNCHANGED candvars

\* Method 1 from subprocess.run(['Rscript', ...]) on: the rest of
\* download_data_with_r with its finally clause, and the read of the raw
\* CSV; a failure is caught by main and Method 2 is next
X_RunRScript ==
    /\ script = EXTRACT
    /\ pc = "rscript"
    /\ \E o \in ROutcomes :
          /\ r_outcome' = o
          /\ r_script_exists' = r_script_after(o, r_script_exists)
          /\ IF o = "ok"
             THEN /\ df' = source
                  /\ pc' = "clean"
             ELSE /\ pc' = "method2"
                  /\ UNCHANGED df
    /\ UNCHANGED <<script, source, df_clean, date_col, streamflow_col, via,
                   fetchvars, outvars, methods_tried>>
    /\ UNCHANGED plotvars
    /\ UNCHANGED filevars
    /\ UNCHANGED loadvars
    /\ UNCHANGED candvars

\* pd.read_excel(path): only spreadsheet bytes load
ReadExcelLoads(body) == body = "xlsx"

\* pd.read_csv(path): only delimited text loads as the table it holds
ReadCsvLoads(body) == body = "csv"

\* the export URL download_from_cr2_explorador takes from the envelope:
\* the series URL, and the map URL as the last resort
X_ExportUrl(r) ==
    IF r.series THEN SERIES_URL
    ELSE IF r.map THEN MAP_URL
    ELSE ""

\* the branch of download_from_cr2_explorador a 200 response takes
X_Branch(r) ==
    IF r.ctype = "excel" THEN "xlsx"
    ELSE IF r.ctype = "json" \/ r.body \in {"envelope", "json_other"} THEN "json"
    ELSE IF r.ctype = "html" THEN "html"
    ELSE "detect"

\* main keeping the frame of Method 2 and still going on to Method 3
X_ApiReturned_GoesOn(frame_or_none) ==
    LET df_api == IF frame_or_none.kind = "junk_frame" THEN JunkFrame
                  ELSE BodyFrame(frame_or_none.url)
    IN /\ pc' = "method3"
       /\ df' = IF frame_or_none.kind \in {"frame", "junk_frame"}
                   /\ Len(df_api.rows) > 0
                THEN df_api ELSE df

\* main after download_from_cr2_explorador returned (df_api, size):
\* a non-empty frame ends the acquisition, anything else goes to Method 3
X_ApiReturned(frame_or_none) ==
    LET df_api == IF frame_or_none.kind = "junk_frame" THEN JunkFrame
                  ELSE BodyFrame(frame_or_none.url)
    IN IF frame_or_none.kind \in {"frame", "junk_frame"} /\ Len(df_api.rows) > 0
       THEN /\ df' = df_api
            /\ pc' = "clean"
       ELSE /\ pc' = "method3"
            /\ UNCHANGED df

\* what download_from_cr2_explorador makes of the first response: the
\* payload it returns, or the export URL it goes on to request
X_FirstHopResults(r) ==
    LET direct == [kind |-> "frame", of |-> "first", url |-> API_URL]
        junk == [kind |-> "junk_frame", of |-> "first", url |-> API_URL]
        Returns(p) == [payload |-> p, export_url |-> ""]
    IN IF r.outcome # "ok"
       THEN \* the status is not 200, or requests.get raised
            {Returns(NoPayload)}
       ELSE IF X_Branch(r) = "xlsx"
       THEN {Returns(IF ReadExcelLoads(r.body) THEN direct ELSE NoPayload)}
       ELSE IF X_Branch(r) = "json"
       THEN IF r.body = "envelope" /\ X_ExportUrl(r) # ""
            THEN {[payload |-> NoPayload, export_url |-> X_ExportUrl(r)]}
            ELSE \* no export URL, or the body is no JSON object
                 {Returns(NoPayload)}
       ELSE IF X_Branch(r) = "html"
       THEN {Returns(NoPayload)}
       ELSE \* "Try different formats": read_excel, then read_csv, which
            \* makes a one-column table of text that is no table when its
            \* lines hold no more fields than the first
            {Returns(IF ReadExcelLoads(r.body) \/ ReadCsvLoads(r.body)
                     THEN direct ELSE NoPayload)}
            \cup (IF r.body = "html" THEN {Returns(junk)} ELSE {})

\* Method 2: download_from_cr2_explorador up to its return or to the
\* request for the export file
X_ApiRequest ==
    /\ script = EXTRACT
    /\ pc = "method2"
    /\ \E r \in FirstResponses :
          \E res \in X_FirstHopResults(r) :
             /\ first' = r
             /\ requests' = Append(requests, API_URL)
             /\ payload' = res.payload
             /\ export_url' = res.export_url
             /\ IF res.export_url # ""
                THEN /\ pc' = "follow_up"
                     /\ UNCHANGED df
                ELSE X_ApiReturned(res.payload)
    /\ UNCHANGED <<script, source, df_clean, date_col, streamflow_col, via,
                   second, outvars>>
    /\ UNCHANGED plotvars
    /\ UNCHANGED filevars
    /\ UNCHANGED loadvars
    /\ UNCHANGED candvars
    /\ methods_tried' = Append(methods_tried, 2)
    /\ UNCHANGED <<r_script_exists, r_outcome>>

\* whether the file behind the export URL loads on the route its extension
\* and Content-Type select
X_ExportLoads(ext, r) ==
    IF ext = ".xlsx" \/ r.ctype = "xlsx" THEN ReadExcelLoads(r.body)
    ELSE IF ext = ".csv" \/ r.ctype = "csv" THEN ReadCsvLoads(r.body)
    ELSE ReadExcelLoads(r.body) \/ ReadCsvLoads(r.body)

\* Method 2, file_response = requests.get(series_url, ...) to the end of
\* download_from_cr2_explorador.  A status other than 200 falls off the end
\* of the function: it returns None, main's unpacking raises TypeError and
\* main's handler returns 1
X_ApiFollowUp ==
    /\ script = EXTRACT
    /\ pc = "follow_up"
    /\ \E r \in SecondResponses, ext \in UrlExtensions :
          /\ second' = r
          /\ requests' = Append(requests, export_url)
          /\ IF r.outcome = "http_error"
             THEN /\ payload' = NoPayload
                  /\ Finish("returned_1")
                  /\ UNCHANGED df
             ELSE /\ payload' = IF r.outcome = "ok" /\ X_ExportLoads(ext, r)
                                THEN [kind |-> "frame", of |-> "second",
                                      url |-> export_url]
                                ELSE NoPayload
                  /\ X_ApiReturned(payload')
                  /\ UNCHANGED status
    /\ UNCHANGED <<script, source, df_clean, date_col, streamflow_col, via,
                   first, export_url, csv_written, plot_written>>
    /\ UNCHANGED plotvars
    /\ UNCHANGED filevars
    /\ UNCHANGED loadvars
    /\ UNCHANGED candvars
    /\ UNCHANGED rvars

\* urls of download_camels_data_direct
CamelsUrls ==
    << "http://www.cr2.cl/download/camels-cl/2_CAMELScl_streamflow_m3s.zip",
       "https://www.cr2.cl/wp-content/uploads/2020/01/2_CAMELScl_streamflow_m3s.zip",
       "https://camels.cr2.cl/data/2_CAMELScl_streamflow_m3s.zip",
       "https://www.cr2.cl/camels-cl/data/2_CAMELScl_streamflow_m3s.zip" >>

\* find_station_in_directory(DATA_DIR) and load_data_from_file(station_file):
\* no file of the station, a file that loads, or one that raises ValueError,
\* which main's handler turns into return 1
X_FindAndLoad(next) ==
    \E found \in {"no_station_file", "loads", "raises"} :
        CASE found = "loads" ->
                /\ df' = source
                /\ pc' = "clean"
                /\ UNCHANGED status
          [] found = "raises" ->
                /\ Finish("returned_1")
                /\ UNCHANGED df
          [] OTHER ->
                /\ pc' = next
                /\ UNCHANGED <<df, status>>

\* Method 3: download_camels_data_direct tries its URLs in order until one
\* answers 200, then the station file is searched in the data directory
X_Method3 ==
    /\ script = EXTRACT
    /\ pc = "method3"
    /\ \E n \in 1..Len(CamelsUrls), got_zip \in BOOLEAN :
          /\ ~got_zip => n = Len(CamelsUrls)
          /\ requests' = requests \o SubSeq(CamelsUrls, 1, n)
          /\ IF got_zip
             THEN X_FindAndLoad("method4")
             ELSE /\ pc' = "method4"
                  /\ UNCHANGED <<df, status>>
    /\ UNCHANGED <<script, source, df_clean, date_col, streamflow_col, via,
                   first, second, export_url, payload, csv_written, plot_written>>
    /\ UNCHANGED plotvars
    /\ UNCHANGED filevars
    /\ UNCHANGED loadvars
    /\ UNCHANGED candvars
    /\ methods_tried' = Append(methods_tried, 3)
    /\ UNCHANGED <<r_script_exists, r_outcome>>

\* Method 4: manually placed data in DATA_DIR
X_Method4 ==
    /\ script = EXTRACT
    /\ pc = "method4"
    /\ \E dir_exists \in BOOLEAN :
          IF dir_exists
          THEN X_FindAndLoad("method5")
          ELSE /\ pc' = "method5"
               /\ UNCHANGED <<df, status>>
    /\ UNCHANGED <<script, source, df_clean, date_col, streamflow_col, via,
                   fetchvars, csv_written, plot_written>>
    /\ UNCHANGED plotvars
    /\ UNCHANGED filevars
    /\ UNCHANGED loadvars
    /\ UNCHANGED candvars
    /\ methods_tried' = Append(methods_tried, 4)
    /\ UNCHANGED <<r_script_exists, r_outcome>>

\* Method 5: an existing raw CSV, else "Could not find or download data"
X_Method5 ==
    /\ script = EXTRACT
    /\ pc = "method5"
    /\ \E raw_csv_exists \in BOOLEAN :
          IF raw_csv_exists
          THEN /\ methods_tried' = Append(methods_tried, 5)
               /\ df' = source
               /\ pc' = "clean"
               /\ UNCHANGED status
          ELSE /\ Finish("returned_1")
               /\ UNCHANGED <<df, methods_tried>>
    /\ UNCHANGED <<script, source, df_clean, date_col, streamflow_col, via,
                   fetchvars, csv_written, plot_written>>
    /\ UNCHANGED plotvars
    /\ UNCHANGED filevars
    /\ UNCHANGED loadvars
    /\ UNCHANGED candvars
    /\ UNCHANGED <<r_script_exists, r_outcome>>

(***************************************************************************)
(* plot_1960_2025 and create_plot_1960_2025: the local data files.         *)
(***************************************************************************)
\* find_data_file(): the first path of DATA_FILES that exists, 0 for None
find_data_file(files) ==
    IF \E i \in 1..Len(files) : files[i].exists
    THEN First({i \in 1..Len(files) : files[i].exists})
    ELSE 0

\* the frame a path of DATA_FILES holds when it holds a table: the second
\* path is the cleaned table extract_rinihue_streamflow wrote
DataFileFrame(i, src) == IF i = 2 THEN CleanedCsvFrame(src) ELSE src

\* load_data(filepath) of plot_1960_2025, None as [some |-> FALSE].  A
\* .xlsx path is first opened as UTF-8 text to look for a JSON object; a
\* read that raises is caught and None is returned
load_data(i, file, src) ==
    LET none == [some |-> FALSE, frame |-> EmptyFrame]
        frame == [some |-> TRUE, frame |-> DataFileFrame(i, src)]
    IN IF DATA_FILES[i] = ".xlsx"
       THEN IF ~file.utf8 THEN none           \* f.read(100): UnicodeDecodeError
            ELSE IF file.kind = "envelope" THEN none
            ELSE IF file.kind = "xlsx" THEN frame
            ELSE none                          \* pd.read_excel raises twice
       ELSE IF file.kind = "csv" /\ file.utf8 THEN frame
            ELSE none                          \* pd.read_csv(encoding='utf-8') raises

\* main of plot_1960_2025 from find_data_file() to "if df is None: return 1"
PLOT_Load ==
    /\ script = PLOT_1960_2025
    /\ pc = "load"
    /\ data_file' = find_data_file(data_files)
    /\ IF data_file' = 0
       THEN /\ Finish("returned_1")
            /\ UNCHANGED df
       ELSE LET r == load_data(data_file', data_files[data_file'], source)
            IN IF r.some
               THEN /\ df' = r.frame
                    /\ pc' = "identify"
                    /\ UNCHANGED status
               ELSE /\ Finish("returned_1")
                    /\ UNCHANGED df
    /\ UNCHANGED <<script, source, df_clean, date_col, streamflow_col, via,
                   fetchvars, csv_written, plot_written, data_files>>
    /\ UNCHANGED plotvars
    /\ UNCHANGED filevars
    /\ UNCHANGED loadvars
    /\ UNCHANGED rvars

\* download_data(): the data file is there, or download_with_curl.sh is run
\* and leaves it or not, and main's "if not download_data(): return 1"
CREATE_Download ==
    /\ script = CREATE_PLOT_1960_2025
    /\ pc = "download"
    /\ IF data_file_exists
       THEN /\ pc' = "load"
            /\ UNCHANGED <<status, data_file_exists, download_started>>
       ELSE /\ download_started' = TRUE
            /\ \E fetched \in BOOLEAN :
                  /\ data_file_exists' = fetched
                  /\ IF fetched
                     THEN /\ pc' = "load"
                          /\ UNCHANGED status
                     ELSE Finish("returned_1")
    /\ UNCHANGED <<script, source, framevars, fetchvars, csv_written, plot_written>>
    /\ UNCHANGED <<plotvars, cleaned_csv_exists>>
    /\ UNCHANGED loadvars
    /\ UNCHANGED candvars
    /\ UNCHANGED rvars

\* load_and_process_data(): the cleaned CSV if it exists, else the data
\* file, else None and main returns 1; a read that raises is not caught
CREATE_Load ==
    /\ script = CREATE_PLOT_1960_2025
    /\ pc = "load"
    /\ IF ~cleaned_csv_exists /\ ~data_file_exists
       THEN /\ Finish("returned_1")
            /\ UNCHANGED df
       ELSE \E r \in {"loaded", "read_raises"} :
               IF r = "loaded"
               THEN /\ df' = IF cleaned_csv_exists THEN CleanedCsvFrame(source)
                             ELSE source
                    /\ pc' = "identify"
                    /\ UNCHANGED status
               ELSE /\ Finish("uncaught_exception")
                    /\ UNCHANGED df
    /\ UNCHANGED <<script, source, df_clean, date_col, streamflow_col, via,
                   fetchvars, csv_written, plot_written>>
    /\ UNCHANGED plotvars
    /\ UNCHANGED filevars
    /\ UNCHANGED loadvars
    /\ UNCHANGED candvars
    /\ UNCHANGED rvars


(***************************************************************************)
(* The stages of main after the frame is loaded.                           *)
(***************************************************************************)
\* the column of a frame labelled name
ColumnOf(f, name) == f.columns[ColIndex(f, name)]

\* an uncaught exception ends download_and_plot, plot_1960_2025 and
\* create_plot_1960_2025 with a traceback; the handler of
\* extract_rinihue_streamflow's main returns 1
Raised(s) == IF s = EXTRACT THEN "returned_1" ELSE "uncaught_exception"

\* date_col, streamflow_col = identify_columns(df) and main's
\* "if streamflow_col is None: ... return 1"
Main_Identify ==
    /\ script \in {DOWNLOAD_AND_PLOT, PLOT_1960_2025, CREATE_PLOT_1960_2025}
    /\ pc = "identify"
    /\ LET r == identify_columns(script, df)
       IN /\ date_col' = r.date_col
          /\ streamflow_col' = r.streamflow_col
          /\ via' = r.via
          /\ IF ~r.streamflow_col.some
             THEN Finish("returned_1")
             ELSE /\ pc' = IF script = CREATE_PLOT_1960_2025 THEN "plot" ELSE "clean"
                  /\ UNCHANGED status
    /\ UNCHANGED <<script, source, df, df_clean, fetchvars, csv_written, plot_written>>
    /\ UNCHANGED plotvars
    /\ UNCHANGED filevars
    /\ UNCHANGED loadvars
    /\ UNCHANGED candvars
    /\ UNCHANGED rvars

\* df_clean = clean_data(df, streamflow_col)
Main_Clean ==
    /\ script \in {DOWNLOAD_AND_PLOT, PLOT_1960_2025}
    /\ pc = "clean"
    /\ df_clean' = clean_data(script, df, streamflow_col.name)
    /\ pc' = "save"
    /\ UNCHANGED <<script, source, df, date_col, streamflow_col, via,
                   fetchvars, outvars>>
    /\ UNCHANGED plotvars
    /\ UNCHANGED filevars
    /\ UNCHANGED loadvars
    /\ UNCHANGED candvars
    /\ UNCHANGED rvars

\* df_clean, streamflow_col = clean_data(df_raw) of
\* extract_rinihue_streamflow: the value column is identified inside, and
\* "Could not identify streamflow column" is raised when there is none
X_Clean ==
    /\ script = EXTRACT
    /\ pc = "clean"
    /\ LET r == identify_columns(script, df)
       IN /\ streamflow_col' = r.streamflow_col
          /\ via' = r.via
          /\ IF ~r.streamflow_col.some
             THEN /\ Finish("returned_1")
                  /\ UNCHANGED df_clean
             ELSE /\ df_clean' = clean_data(script, df, r.streamflow_col.name)
                  /\ pc' = "save"
                  /\ UNCHANGED status
    /\ UNCHANGED <<script, source, df, date_col, fetchvars, csv_written, plot_written>>
    /\ UNCHANGED plotvars
    /\ UNCHANGED filevars
    /\ UNCHANGED loadvars
    /\ UNCHANGED candvars
    /\ UNCHANGED rvars

\* df_clean.to_csv(OUTPUT_CSV, index=False): the file is written, or the
\* write raises OSError
Main_SaveCsv ==
    /\ script \in {EXTRACT, DOWNLOAD_AND_PLOT, PLOT_1960_2025}
    /\ pc = "save"
    /\ \E written \in BOOLEAN :
          IF written
          THEN /\ csv_written' = TRUE
               /\ pc' = "plot"
               /\ UNCHANGED status
          ELSE /\ Finish(Raised(script))
               /\ UNCHANGED csv_written
    /\ UNCHANGED <<script, source, framevars, fetchvars, plot_written>>
    /\ UNCHANGED plotvars
    /\ UNCHANGED filevars
    /\ UNCHANGED loadvars
    /\ UNCHANGED candvars
    /\ UNCHANGED rvars

\* the frame handed to create_plot: create_plot_1960_2025 has no cleaning
PlotInput == IF script = CREATE_PLOT_1960_2025 THEN df ELSE df_clean

\* the statistics box formats min, max and mean with ":.2f", which raises
\* for the strings of a text column; extract's create_plot has no box
StatsBoxRaises(s, f, col) ==
    /\ s # EXTRACT
    /\ ~ColumnOf(f, col).numeric
    /\ Len(f.rows) > 0

\* create_plot(...): the chart is saved by plt.savefig, unless the
\* statistics box or savefig raises before
Main_CreatePlot ==
    /\ pc = "plot"
    /\ date_col' = IF script = EXTRACT
                   THEN identify_columns(script, PlotInput).date_col
                   ELSE date_col
    /\ LET r == create_plot_dates(script, PlotInput, date_col')
       IN /\ dates' = r.dates
          /\ df_plot' = r.df_plot
          /\ dates_plot' = r.dates_plot
    /\ \E saved \in BOOLEAN :
          IF saved /\ ~StatsBoxRaises(script, PlotInput, streamflow_col.name)
          THEN /\ plot_written' = TRUE
               /\ IF script = EXTRACT
                  THEN /\ pc' = "summary"
                       /\ UNCHANGED status
                  ELSE Finish("returned_0")
          ELSE /\ Finish(Raised(script))
               /\ UNCHANGED plot_written
    /\ UNCHANGED <<script, source, df, df_clean, streamflow_col, via,
                   fetchvars, csv_written>>
    /\ UNCHANGED filevars
    /\ UNCHANGED loadvars
    /\ UNCHANGED candvars
    /\ UNCHANGED rvars

\* the summary of extract_rinihue_streamflow's main: its statistics are
\* formatted with ":.2f" when the cleaned frame has rows
X_Summary ==
    /\ script = EXTRACT
    /\ pc = "summary"
    /\ IF Len(df_clean.rows) > 0 /\ ~ColumnOf(df_clean, streamflow_col.name).numeric
       THEN Finish("returned_1")
       ELSE Finish("returned_0")
    /\ UNCHANGED <<script, source, framevars, fetchvars, csv_written, plot_written>>
    /\ UNCHANGED plotvars
    /\ UNCHANGED filevars
    /\ UNCHANGED loadvars
    /\ UNCHANGED candvars
    /\ UNCHANGED rvars

Next ==
    \/ DAP_Download
    \/ DAP_FollowUp
    \/ DAP_Load
    \/ X_Method1
    \/ X_RunRScript
    \/ X_ApiRequest
    \/ X_ApiFollowUp
    \/ X_Method3
    \/ X_Method4
    \/ X_Method5
    \/ PLOT_Load
    \/ CREATE_Download
    \/ CREATE_Load
    \/ Main_Identify
    \/ Main_Clean
    \/ X_Clean
    \/ Main_SaveCsv
    \/ Main_CreatePlot
    \/ X_Summary

Spec == Init /\ [][Next]_vars


(***************************************************************************)
(* Properties of a run of main, checked under Spec.                        *)
(***************************************************************************)
\* the column identification of the running script has been applied to df
Identified ==
    /\ df # EmptyFrame
    /\ pc # "identify"
    /\ ~(script = EXTRACT /\ pc = "clean")

\* no column name holds a value term of the script, and the script's
\* numeric fallback has no column left
NoValueCandidate(s, f) ==
    /\ \A k \in 1..Len(f.columns) :
          ~ContainsAny(Lower(f.columns[k].name), ValueTerms(s))
    /\ FallbackCandidates(s, f, FindDateColumn(s, f)) = <<>>

C9_BothFilesOrNeither ==
    status # "running" => (csv_written <=> plot_written)

\* the fetcher of the running script has returned
FetchReturned ==
    \/ script = DOWNLOAD_AND_PLOT /\ pc \notin {"download", "follow_up"}
    \/ script = EXTRACT /\ pc \notin {"method1", "method2", "follow_up"}

\* the positions of the requests to an export URL
ExportRequests == {i \in 1..Len(requests) : requests[i] \in {SERIES_URL, MAP_URL}}

\* C10: when the first response is a JSON envelope, the fetcher takes
\* export.series.url, or export.map.url when there is no series URL, issues
\* exactly one more GET, to that URL, and what it returns is the body of
\* that second response, never the envelope.
C10_EnvelopeFollowedOnce ==
    (FetchReturned /\ first.outcome = "ok" /\ first.body = "envelope"
        /\ (first.series \/ first.map)) =>
        /\ ExportRequests = {2}
        /\ requests[2] = IF first.series THEN SERIES_URL ELSE MAP_URL
        /\ payload.kind # "none" =>
              /\ payload.of = "second"
              /\ payload.url = requests[2]

\* a request of the fetcher ended with a status other than 200 or with a
\* network exception
FetchFailed ==
    \/ first.outcome \in {"http_error", "network_error"}
    \/ second.outcome \in {"http_error", "network_error"}

\* C11: when the initial request or the follow-up request ends with a
\* non-200 status or a network exception, the fetcher returns no payload
\* and no frame, nothing is parsed or plotted, and the run ends with a
\* failure status.
C11_FetchFailureStopsRun ==
    FetchFailed =>
        /\ payload = NoPayload
        /\ df = EmptyFrame
        /\ ~csv_written
        /\ ~plot_written
        /\ pc = "done" => status = "returned_1"

\* C12: when the initial 200 response is an HTML error page, the fetch ends
\* in failure: the fetcher returns no payload path and no frame, so the page
\* is not handed to the later stages as data.
C12_HtmlPageIsFailure ==
    (first.outcome = "ok" /\ first.body = "html") => payload = NoPayload

\* C13: a run issues at most two HTTP GET requests, the API request and at
\* most one follow-up to the export URL, and none after a request failed.
C13_AtMostTwoRequests ==
    /\ Len(requests) <= 2
    /\ FetchFailed => Len(requests) = (IF second = NoResponse THEN 1 ELSE 2)

(***************************************************************************)
(* SpecPlot: create_plot applied to bounded frames.                        *)
(***************************************************************************)
MaxPlotRows == 3

\* the entries a date column may hold: missing, text that is no date, a day
\* the calendar does not have, and days around the ends of the window
DateEntries ==
    { NaN, Num(0), DateText(1960, 2, 30),
      DateText(1959, 12, 31), DateText(1960, 1, 1),
      DateText(2025, 12, 31), DateText(2026, 1, 1) }

\* a frame of a date column and a value column without missing entries
DatedFrame(ds) ==
    Frame(<<Column(n_fecha, FALSE), Column(n_caudal_m3s, TRUE)>>,
          [i \in 1..Len(ds) |-> [idx |-> i, cells |-> <<ds[i], Num(100 * i)>>]])

\* a frame of a value column alone
UndatedFrame(n) ==
    Frame(<<Column(n_caudal_m3s, TRUE)>>,
          [i \in 1..n |-> [idx |-> i, cells |-> <<Num(100 * i)>>]])

\* the least row count at which days generated from 1960-01-01 reach 2026
rows_past_window == Timestamp(2026, 1, 1).day - Timestamp(1960, 1, 1).day + 1

PlotFrames ==
    { DatedFrame(ds) : ds \in UNION {[1..n -> DateEntries] : n \in 0..MaxPlotRows} }
    \cup { UndatedFrame(n) :
              n \in (0..MaxPlotRows) \cup {many_rows, many_rows + 1, rows_past_window} }

InitPlot ==
    /\ script \in Scripts
    /\ pc = "plot"
    /\ source \in PlotFrames
    /\ df = source
    /\ df_clean = source
    /\ date_col = IF script = EXTRACT THEN None
                  ELSE identify_columns(script, source).date_col
    /\ streamflow_col = Some(n_caudal_m3s)
    /\ via = "name"
    /\ requests = <<>>
    /\ first = NoResponse
    /\ second = NoResponse
    /\ export_url = ""
    /\ payload = NoPayload
    /\ csv_written = FALSE
    /\ plot_written = FALSE
    /\ status = "running"
    /\ dates = <<>>
    /\ df_plot = EmptyFrame
    /\ dates_plot = <<>>
    /\ cleaned_csv_exists = FALSE
    /\ data_file_exists = FALSE
    /\ download_started = FALSE
    /\ data_files = NoDataFiles
    /\ data_file = 0
    /\ methods_tried = <<>>
    /\ r_script_exists = FALSE
    /\ r_outcome = "none"
    /\ text_file = NoTextFile
    /\ attempts = <<>>
    /\ load_result = "none"

NextPlot == Main_CreatePlot

SpecPlot == InitPlot /\ [][NextPlot]_vars

\* create_plot has prepared its dates
Plotted == pc \in {"summary", "done"} /\ (plot_written \/ status # "running")

\* C14: when no date column is identified, the timestamps create_plot uses
\* are consecutive days starting at 1960-01-01, one per row of the frame,
\* whatever the number of rows.
C14_GeneratedDatesStartIn1960 ==
    (Plotted /\ ~date_col.some) =>
        dates = date_range(Timestamp(1960, 1, 1), Len(PlotInput.rows))

\* the entries of the date column of the frame create_plot was given, parsed
ParsedDateColumn ==
    to_datetime(Series(PlotInput, ColIndex(PlotInput, date_col.name)))

\* create_plot was given a frame that has the date column identified
DateColumnUsed == date_col.some /\ HasDateColumn(script, PlotInput, date_col)

\* C15: when a date column is identified and none of its entries parses as
\* a date, create_plot draws against the generated consecutive days starting
\* at 1960-01-01, one per row, not against undefined timestamps.
C15_UnparsedDatesReplaced ==
    (Plotted /\ DateColumnUsed /\ isna_all(ParsedDateColumn)) =>
        /\ dates = date_range(Timestamp(1960, 1, 1), Len(PlotInput.rows))
        /\ dates_plot = dates

\* some entries of the date column parse and some do not
ParsedPartially ==
    /\ DateColumnUsed
    /\ \E i \in 1..Len(ParsedDateColumn) : ParsedDateColumn[i].nat
    /\ \E i \in 1..Len(ParsedDateColumn) : ~ParsedDateColumn[i].nat

\* a parsed entry of the date column lies from 1960-01-01 to 2025-12-31
SomeDateInRange ==
    \E i \in 1..Len(ParsedDateColumn) :
        /\ ~ParsedDateColumn[i].nat
        /\ ParsedDateColumn[i].day \in
              Timestamp(1960, 1, 1).day .. Timestamp(2025, 12, 31).day

\* no row drawn has an undefined timestamp, and the frame create_plot was
\* given still is the frame it was
UndefinedDatesNotDrawn ==
    /\ \A i \in 1..Len(dates_plot) : ~dates_plot[i].nat
    /\ Len(df_plot.rows) = Len(dates_plot)
    /\ \A i \in 1..Len(df_plot.rows) :
          ~to_datetime(<<df_plot.rows[i].cells[ColIndex(df_plot, date_col.name)]>>)[1].nat
    /\ PlotInput = source

\* C16 as stated: when the date column parses only partially, a row whose
\* date entry does not parse is never among the rows create_plot draws and
\* summarises, and the frame passed to create_plot keeps all its rows.
C16_UndefinedDatesNeverDrawn ==
    (Plotted /\ ParsedPartially) => UndefinedDatesNotDrawn

\* C16, amended: when the date column parses only partially and at least
\* one parsed date lies from 1960-01-01 to 2025-12-31, a row whose date
\* entry does not parse is not among the rows create_plot draws, and the
\* frame passed to create_plot keeps all its rows.  (With no parsed date in
\* that range create_plot draws every row, undefined timestamps included.)
C16_UndefinedDatesDroppedWhenRangeHit ==
    (Plotted /\ ParsedPartially /\ SomeDateInRange) => UndefinedDatesNotDrawn

C16_Witness ==
    /\ Plotted
    /\ ParsedPartially
    /\ SomeDateInRange
    /\ Len(df_plot.rows) < Len(source.rows)
    /\ Len(df_plot.rows) > 0

\* C17: in every run that reaches the chart renderer, the value sequence
\* handed to it has no missing entry, whichever file the frame came from.
C17_PlottedValuesNotMissing ==
    df_plot # EmptyFrame =>
        CountNA(Series(df_plot, ColIndex(df_plot, streamflow_col.name))) = 0

\* C18: when a previously cleaned CSV exists, the run loads it without
\* starting a download, and does not fail for want of a download.
C18_CleanedCsvSkipsDownload ==
    cleaned_csv_exists =>
        /\ ~download_started
        /\ status = "returned_1" => df # EmptyFrame

\* what the Content-Type header of a response may name
ContentTypes == {"json", "excel", "html", "other"}

\* C19: what the fetcher makes of a response does not depend on the
\* declared Content-Type: the response the run received, under any other
\* Content-Type, yields the same frame or the same failure.
C19_ContentTypeIgnored ==
    (script = EXTRACT /\ first.outcome = "ok") =>
        \A c \in ContentTypes :
            X_FirstHopResults([first EXCEPT !.ctype = c]) = X_FirstHopResults(first)

(***************************************************************************)
(* SpecLoad: the loaders reading a delimited-text file.                    *)
(***************************************************************************)
\* pd.read_csv(filepath, sep=sep, encoding=encoding)
ReadCsv(sep, encoding) == [sep |-> sep, encoding |-> encoding]

\* the pd.read_csv calls a loader makes on a text file, each one in the
\* except clause of the one before
read_csv_calls(s) ==
    CASE s = EXTRACT ->
            << ReadCsv(",", "utf-8"), ReadCsv(",", "latin-1"),
               ReadCsv("\\t", "utf-8"), ReadCsv("\\s+", "utf-8") >>
      [] s = DOWNLOAD_AND_PLOT ->
            << ReadCsv(",", "utf-8"), ReadCsv(",", "latin-1") >>
      [] OTHER ->
            << ReadCsv(",", "utf-8") >>

\* whether a pd.read_csv call returns a frame for the file
read_csv_succeeds(file, call) ==
    /\ call.encoding = "latin-1" \/ file.utf8
    /\ call.sep \in file.parses_with

Separators == {",", "\\t", "\\s+"}

TextFiles == {TextFile(u, seps) : u \in BOOLEAN, seps \in SUBSET Separators}

InitLoad ==
    /\ script \in Scripts
    /\ pc = "read_csv"
    /\ text_file \in TextFiles
    /\ attempts = <<>>
    /\ load_result = "none"
    /\ df = EmptyFrame
    /\ df_clean = EmptyFrame
    /\ date_col = None
    /\ streamflow_col = None
    /\ via = "none"
    /\ status = "running"
    /\ source = EmptyFrame
    /\ requests = <<>>
    /\ first = NoResponse
    /\ second = NoResponse
    /\ export_url = ""
    /\ payload = NoPayload
    /\ csv_written = FALSE
    /\ plot_written = FALSE
    /\ dates = <<>>
    /\ df_plot = EmptyFrame
    /\ dates_plot = <<>>
    /\ cleaned_csv_exists = FALSE
    /\ data_file_exists = FALSE
    /\ download_started = FALSE
    /\ data_files = NoDataFiles
    /\ data_file = 0
    /\ methods_tried = <<>>
    /\ r_script_exists = FALSE
    /\ r_outcome = "none"

\* the next pd.read_csv call of the loader: its frame is returned, or its
\* exception leads to the next call, or, after the last call, to the
\* loader's error
ReadCsvAttempt ==
    /\ pc = "read_csv"
    /\ LET call == read_csv_calls(script)[Len(attempts) + 1]
       IN /\ attempts' = Append(attempts, call)
          /\ IF read_csv_succeeds(text_file, call)
             THEN /\ load_result' = "frame"
                  /\ pc' = "loaded"
             ELSE IF Len(attempts) + 1 = Len(read_csv_calls(script))
             THEN /\ load_result' = "unparseable"
                  /\ pc' = "load_failed"
             ELSE UNCHANGED <<load_result, pc>>
    /\ UNCHANGED <<script, source, framevars, fetchvars, outvars, plotvars,
                   filevars, text_file>>
    /\ UNCHANGED candvars
    /\ UNCHANGED rvars

NextLoad == ReadCsvAttempt

SpecLoad == InitLoad /\ [][NextLoad]_vars

\* the parsers of the specification, in its order: comma under UTF-8, comma
\* under Latin-1, tab-separated, whitespace-separated
FourParsers ==
    << ReadCsv(",", "utf-8"), ReadCsv(",", "latin-1"),
       ReadCsv("\\t", "utf-8"), ReadCsv("\\s+", "utf-8") >>

\* C20: loading a delimited-text file tries comma/UTF-8, comma/Latin-1,
\* tab-separated and whitespace-separated in that order, returns the frame
\* of the first attempt that succeeds without running a later one, and
\* reports an unparseable file only after all four attempts have failed.
C20_FourParsersInOrder ==
    /\ Len(attempts) <= Len(FourParsers)
    /\ attempts = SubSeq(FourParsers, 1, Len(attempts))
    /\ \A i \in 1..(Len(attempts) - 1) : ~read_csv_succeeds(text_file, attempts[i])
    /\ load_result = "frame" =>
          read_csv_succeeds(text_file, attempts[Len(attempts)])
    /\ load_result = "unparseable" =>
          /\ attempts = FourParsers
          /\ \A i \in 1..Len(attempts) : ~read_csv_succeeds(text_file, attempts[i])

\* main of plot_1960_2025 is past find_data_file and load_data
PlotLoadDone == script = PLOT_1960_2025 /\ pc # "load"

\* C21: load_data on the .xlsx path holding a genuine spreadsheet returns
\* the frame of the spreadsheet; the look for a JSON envelope that comes
\* before parsing never makes it return the failure value.
C21_SpreadsheetAlwaysLoads ==
    (PlotLoadDone /\ data_file = 1 /\ data_files[1].kind = "xlsx") =>
        df = DataFileFrame(1, source)

\* a path of DATA_FILES holds a file that load_data turns into a frame
SomeCandidateLoads ==
    \E i \in 1..Len(data_files) :
        data_files[i].exists /\ load_data(i, data_files[i], source).some

\* C28: in plot_1960_2025, when at least one candidate of DATA_FILES exists
\* and can be loaded, the run loads a frame, going on to the remaining
\* candidates when the first existing one cannot be loaded.
C28_LoadableCandidateIsLoaded ==
    (PlotLoadDone /\ SomeCandidateLoads) => df # EmptyFrame

\* the date terms of the specification
SpecDateTerms == {t_date, t_time, t_fecha, t_dia}

\* the columns of df whose lower-cased name holds a date term
DateNamed ==
    {k \in 1..Len(df.columns) : ContainsAny(Lower(df.columns[k].name), SpecDateTerms)}

\* C22: in every script the date column is the first column whose
\* lower-cased name contains date, time, fecha or dia, and None when no
\* column name contains any of them.
C22_FirstDateNamedColumn ==
    pc = "identified" =>
        date_col = IF DateNamed = {} THEN None
                   ELSE Some(df.columns[First(DateNamed)].name)

\* main of extract_rinihue_streamflow has entered acquisition method m
MethodTried(m) == \E i \in 1..Len(methods_tried) : methods_tried[i] = m

\* C23: download_from_cr2_explorador returns a pair on every path, also
\* when the follow-up request answers with a status other than 200, so
\* that main goes on to Method 3 instead of ending the run.
C23_FailedFollowUpContinues ==
    (script = EXTRACT /\ second.outcome = "http_error") =>
        (pc = "method3" \/ MethodTried(3))


\* C24: the date column and the value column returned by identify_columns
\* are different columns; one column is never resolved to both roles.
C24_DateAndValueColumnsDiffer ==
    (pc = "identified" /\ script \in {DOWNLOAD_AND_PLOT, PLOT_1960_2025, CREATE_PLOT_1960_2025}
        /\ date_col.some /\ streamflow_col.some) =>
        date_col.name # streamflow_col.name

\* C25: whenever identify_columns returns a value column, that column is
\* of numeric type, whether chosen by name match or by the numeric fallback.
C25_ValueColumnIsNumeric ==
    (pc = "identified" /\ streamflow_col.some) =>
        ColumnOf(df, streamflow_col.name).numeric


(***************************************************************************)
(* The fill steps of clean_data, checked under SpecClean.                  *)
(***************************************************************************)
\* the value column after s.ffill().bfill()
FilledSeries == bfill(ffill(ValueSeries(df)))

\* the valid values of a series
ValuesOf(s) == {s[j].v : j \in Valid(s)}

\* C26: in clean_data, after forward-fill then backward-fill the value
\* column has no missing entry or only missing entries; so the linear
\* interpolation changes no value, every entry of the output column is a
\* value already present in the input column, and the output has the
\* input's row count or 0 rows.
C26_FillsLeaveAllOrNothing ==
    pc = "cleaned" =>
        /\ CountNA(FilledSeries) \in {0, Len(FilledSeries)}
        /\ interpolate(FilledSeries) = FilledSeries
        /\ \A i \in 1..Len(df_clean.rows) :
              /\ ~ValueSeries(df_clean)[i].na
              /\ ValueSeries(df_clean)[i].v \in ValuesOf(ValueSeries(df))
        /\ Len(df_clean.rows) \in {Len(df.rows), 0}

C26_Witness ==
    /\ pc = "cleaned"
    /\ Len(df.rows) >= 3
    /\ ValueSeries(df)[1].na
    /\ ValueSeries(df)[Len(df.rows)].na
    /\ CountNA(ValueSeries(df)) < Len(df.rows)
    /\ Len(df_clean.rows) = Len(df.rows)
    /\ ValueSeries(df_clean) # ValueSeries(df)


\* a timestamp create_plot has is defined
SomeTimestampDefined == \E i \in 1..Len(dates) : ~dates[i].nat

\* every row drawn has its timestamp from 1960-01-01 to 2025-12-31
PlottedInsideWindow ==
    /\ Len(df_plot.rows) = Len(dates_plot)
    /\ \A i \in 1..Len(dates_plot) :
          /\ ~dates_plot[i].nat
          /\ dates_plot[i].day \in
                Timestamp(1960, 1, 1).day .. Timestamp(2025, 12, 31).day

\* C27: whenever at least one timestamp is defined, every row create_plot
\* draws and summarises has a timestamp inside the inclusive window from
\* 1960-01-01 to 2025-12-31.
C27_PlottedRowsInsideWindow ==
    (Plotted /\ SomeTimestampDefined) => PlottedInsideWindow


(***************************************************************************)
(* The acquisition methods of extract_rinihue_streamflow, checked under    *)
(* Spec.                                                                   *)
(***************************************************************************)
\* main has a frame: df_raw is not None
HasFrame == df # EmptyFrame

\* this step enters acquisition method m
Attempts(m) == methods_tried' = Append(methods_tried, m)

\* C29: in extract_rinihue_streamflow's main the five acquisition methods
\* (R package, CR2 API, direct zip download, manually placed data, existing
\* raw CSV) are attempted in that order, a method is attempted only if every
\* earlier method yielded no frame, and once a method has yielded a
\* non-empty frame no later method runs or replaces the frame.
C29_MethodsInFixedOrder ==
    [][ script = EXTRACT =>
          /\ methods_tried' # methods_tried =>
                /\ ~HasFrame
                /\ \E m \in 1..5 :
                      /\ Attempts(m)
                      /\ \A i \in 1..Len(methods_tried) : methods_tried[i] < m
                      /\ m \in 3..5 => MethodTried(m - 1)
          /\ HasFrame => (df' = df /\ methods_tried' = methods_tried)
      ]_vars

C29_Witness ==
    /\ script = EXTRACT
    /\ methods_tried = <<1, 2, 3>>
    /\ r_outcome \in ROutcomes \ {"ok"}
    /\ HasFrame
    /\ Len(df.rows) > 0
    /\ pc = "done"
    /\ status = "returned_0"

\* C30: whenever download_data_with_r finishes, whether it returns True or
\* raises (non-zero exit, missing output file, timeout, Rscript not found),
\* the temporary R script file it created no longer exists.
C30_RScriptRemoved ==
    script = EXTRACT =>
        /\ pc = "rscript" => (r_script_exists /\ r_outcome = "none")
        /\ r_outcome # "none" => (~r_script_exists /\ MethodTried(1))

C30_Witness ==
    /\ script = EXTRACT
    /\ r_outcome \in {"nonzero_exit", "no_output_file", "timeout", "rscript_not_found"}
    /\ pc = "method2"
    /\ ~r_script_exists


====
